---- MODULE Spec2Model ----
(***************************************************************************)
(* A model of stomp_moveit's StompPlanner (stomp_planner.cpp): its setup,  *)
(* the detailed solve with its seeded and boundary modes, the conversions  *)
(* between joint trajectories and parameter matrices, the resolution of    *)
(* the start and goal vectors, and terminate/clear.                        *)
(***************************************************************************)
EXTENDS Integers, Sequences, FiniteSets, TLC

(***************************************************************************)
(* Bounds of the model.                                                    *)
(***************************************************************************)
\* largest number of active joints of the planning group
MaxD == 2
\* largest number of waypoints of a seed (trajectory constraints)
MaxWaypoints == 2
\* largest number of terminate calls logged per solve invocation
MaxTerminates == 2
\* largest joint position inside the joint bounds; requests also use MaxPos + 1
MaxPos == 1

(***************************************************************************)
(* Program constants.                                                      *)
(***************************************************************************)
\* a pointer or an optional value: NULL, or Ptr(x) holding x
NULL == <<>>
Ptr(x) == <<x>>
Deref(p) == p[1]

\* moveit_msgs::MoveItErrorCodes values used by the planner
SUCCESS == 1
FAILURE == 99999
PLANNING_FAILED == -1
INVALID_MOTION_PLAN == -2
\* a code the optimization task may write when it cannot bind the request
START_STATE_IN_COLLISION == -10

IK_ATTEMPTS == 10
\* static int const IK_TIMEOUT = 0.05 truncates to 0
IK_TIMEOUT == 0
\* parseConfig's default for num_timesteps
DEFAULT_NUM_TIMESTEPS == 40

\* the planning group the robot model knows, and its joints in canonical order
GROUP == "arm"
AllJointNames == <<"j1", "j2", "j3", "j4", "j5">>
\* a variable name the robot model does not know
UNKNOWN_JOINT == "jx"

\* joint bounds of every active joint
JointBounds == [lower |-> 0, upper |-> MaxPos]

(***************************************************************************)
(* Small helpers.                                                          *)
(***************************************************************************)
Min(a, b) == IF a < b THEN a ELSE b
Max(a, b) == IF a > b THEN a ELSE b

\* std::vector::resize(n): keeps the first n elements, pads with the default
Resize(s, n, d) ==
  IF Len(s) >= n THEN SubSeq(s, 1, n)
  ELSE s \o [i \in 1..(n - Len(s)) |-> d]

\* getActiveJointModelNames() of a group with d active joints
ActiveJointModelNames(d) == SubSeq(AllJointNames, 1, d)

\* RobotState::enforceBounds on one joint position
EnforceBounds(p) == Max(JointBounds.lower, Min(JointBounds.upper, p))

(***************************************************************************)
(* parseConfig: defaults, optional overrides, dimensionality.              *)
(* config is the 'optimization' subtree: a record whose num_timesteps is   *)
(* NULL when the member is absent.                                         *)
(***************************************************************************)
parseConfig(config, d) ==
  LET stomp_config ==
        [control_cost_weight |-> 0,
         initialization_method |-> 1,
         num_timesteps |-> IF config.num_timesteps = NULL
                           THEN DEFAULT_NUM_TIMESTEPS
                           ELSE Deref(config.num_timesteps),
         delta_t |-> 1,
         num_iterations |-> 50,
         num_iterations_after_valid |-> 0,
         max_rollouts |-> 100,
         num_rollouts |-> 10,
         exponentiated_cost_sensitivity |-> 10,
         num_dimensions |-> d]
  IN [ok |-> d # 0, stomp_config |-> stomp_config]

(***************************************************************************)
(* extractSeedTrajectory: the loop over the waypoints, returning at the    *)
(* first waypoint whose constraint count or joint names do not match.      *)
(* seed.points keeps the points pushed before the return.                  *)
(***************************************************************************)
\* mutant: the names are looked up among the group's joints, in any order
SeedNamesAnyOrder(jcs, names, j) ==
  \A k \in j..Len(jcs) : \E n \in 1..Len(names) : names[n] = jcs[k].joint_name

\* the inner loop over one waypoint's joint constraints: TRUE iff every name matches
RECURSIVE SeedNamesMatch(_, _, _)
SeedNamesMatch(jcs, names, j) ==
  IF j > Len(jcs) THEN TRUE
  ELSE IF jcs[j].joint_name # names[j] THEN FALSE
  ELSE SeedNamesMatch(jcs, names, j + 1)

\* mutant: every position taken from the first joint constraint
SeedPointFirst(jcs) ==
  [positions |-> [j \in 1..Len(jcs) |-> jcs[1].position]]

SeedPoint(jcs) ==
  [positions |-> [j \in 1..Len(jcs) |-> jcs[j].position]]

RECURSIVE SeedLoop(_, _, _, _)
SeedLoop(constraints, names, i, points) ==
  IF i > Len(constraints)
  THEN [ok |-> TRUE, seed |-> [joint_names |-> names, points |-> points]]
  ELSE IF Len(constraints[i].joint_constraints) # Len(names)
  THEN [ok |-> FALSE, seed |-> [joint_names |-> <<>>, points |-> points]]
  ELSE IF ~SeedNamesMatch(constraints[i].joint_constraints, names, 1)
  THEN [ok |-> FALSE, seed |-> [joint_names |-> <<>>, points |-> points]]
  ELSE SeedLoop(constraints, names, i + 1,
                Append(points, SeedPoint(constraints[i].joint_constraints)))

extractSeedTrajectory(req, names) ==
  IF req.trajectory_constraints = <<>>
  THEN [ok |-> FALSE, seed |-> [joint_names |-> <<>>, points |-> <<>>]]
  ELSE SeedLoop(req.trajectory_constraints, names, 1, <<>>)

(***************************************************************************)
(* jointTrajectorytoParameters: a dof x timesteps matrix, mat(joint, step) *)
(* = traj.points[step].positions[joint].                                   *)
(***************************************************************************)
\* mutant: the matrix filled as mat(step, joint)
jointTrajectorytoParametersTransposed(traj) ==
  LET dof == Len(traj.joint_names)
      timesteps == Len(traj.points)
  IN [rows |-> timesteps, cols |-> dof,
      at |-> [step \in 1..timesteps |->
                [joint \in 1..dof |-> traj.points[step].positions[joint]]]]

jointTrajectorytoParameters(traj) ==
  LET dof == Len(traj.joint_names)
      timesteps == Len(traj.points)
  IN [rows |-> dof, cols |-> timesteps,
      at |-> [joint \in 1..dof |->
                [step \in 1..timesteps |-> traj.points[step].positions[joint]]]]

(***************************************************************************)
(* parametersToJointTrajectory: one point per column, zero velocities,     *)
(* accelerations and time; the time parameterization replaces the          *)
(* trajectory only when computeTimeStamps succeeds. Always returns true.   *)
(***************************************************************************)
\* the time parameterizer's result on success: the same positions, timestamps assigned
computeTimeStamps(trajectory) ==
  [trajectory EXCEPT !.points =
     [t \in 1..Len(trajectory.points) |->
        [trajectory.points[t] EXCEPT !.time_from_start = t - 1]]]

\* mutant: a failed time parameterization reported as a failed conversion
parametersToJointTrajectoryStrict(parameters, names, timingOk) ==
  LET zeros == [j \in 1..parameters.rows |-> 0]
      untimed ==
        [joint_names |-> names,
         points |-> [t \in 1..parameters.cols |->
                       [positions |-> [j \in 1..parameters.rows |-> parameters.at[j][t]],
                        velocities |-> zeros,
                        accelerations |-> zeros,
                        time_from_start |-> 0]]]
  IN [ok |-> timingOk,
      trajectory |-> IF timingOk THEN computeTimeStamps(untimed) ELSE untimed]

\* mutant: every point filled from the first column (parameters.col(0))
parametersToJointTrajectoryFirstColumn(parameters, names, timingOk) ==
  LET zeros == [j \in 1..parameters.rows |-> 0]
      untimed ==
        [joint_names |-> names,
         points |-> [t \in 1..parameters.cols |->
                       [positions |-> [j \in 1..parameters.rows |-> parameters.at[j][1]],
                        velocities |-> zeros,
                        accelerations |-> zeros,
                        time_from_start |-> 0]]]
  IN [ok |-> TRUE,
      trajectory |-> IF timingOk THEN computeTimeStamps(untimed) ELSE untimed]

parametersToJointTrajectory(parameters, names, timingOk) ==
  LET zeros == [j \in 1..parameters.rows |-> 0]
      untimed ==
        [joint_names |-> names,
         points |-> [t \in 1..parameters.cols |->
                       [positions |-> [j \in 1..parameters.rows |-> parameters.at[j][t]],
                        velocities |-> zeros,
                        accelerations |-> zeros,
                        time_from_start |-> 0]]]
  IN [ok |-> TRUE,
      trajectory |-> IF timingOk THEN computeTimeStamps(untimed) ELSE untimed]

(***************************************************************************)
(* getStartAndGoal. The robot state holds one position per active joint.   *)
(* ikOk is the outcome of setFromIK; ubCrash tells how the read of a       *)
(* missing first position/orientation constraint (front() of an empty      *)
(* vector, primitive_poses[0] of an empty vector) turns out: a crash, or a *)
(* read of an arbitrary pose.                                              *)
(***************************************************************************)
\* index of a joint name among the group's active joints, 0 when unknown
JointIndex(names, name) ==
  IF \E j \in 1..Len(names) : names[j] = name
  THEN CHOOSE j \in 1..Len(names) : names[j] = name
  ELSE 0

\* mutant: the goal values written by loop index instead of by joint name
SetGoalPositionsByIndex(state, names, jcs, j) ==
  Ptr([k \in 1..Len(state) |-> IF k <= Len(jcs) THEN jcs[k].position ELSE state[k]])

\* the loop of setVariablePosition calls; NULL when one throws moveit::Exception
RECURSIVE SetGoalPositions(_, _, _, _)
SetGoalPositions(state, names, jcs, j) ==
  IF j > Len(jcs) THEN Ptr(state)
  ELSE IF JointIndex(names, jcs[j].joint_name) = 0 THEN NULL
  ELSE SetGoalPositions(
         [state EXCEPT ![JointIndex(names, jcs[j].joint_name)] = jcs[j].position],
         names, jcs, j + 1)

\* the goal reads a first position constraint, primitive pose or orientation that is missing
CartesianGoalMissing(gc) ==
  \/ gc.position_constraints = <<>>
  \/ gc.orientation_constraints = <<>>
  \/ Head(gc.position_constraints).primitive_poses = <<>>

\* the joint values setFromIK leaves in the state for a pose
IKSolution(d, pose) == [j \in 1..d |-> pose]

getStartAndGoal(req, d, ikOk, ubCrash) ==
  LET names == ActiveJointModelNames(d)
      Fail(ik, ub) == [kind |-> "fail", start |-> <<>>, goal |-> <<>>,
                       ik_calls |-> ik, ub |-> ub]
  IN
  IF ~req.start_state.valid THEN Fail(0, FALSE)
  ELSE
    LET state == [j \in 1..d |-> EnforceBounds(req.start_state.position[j])]
        start == state
    IN
    IF req.goal_constraints = <<>> THEN Fail(0, FALSE)
    ELSE
      LET gc == Head(req.goal_constraints) IN
      IF gc.joint_constraints = <<>>
      THEN
        LET missing == CartesianGoalMissing(gc)
            pose == IF missing THEN 0
                    ELSE Head(Head(gc.position_constraints).primitive_poses)
        IN
        IF missing /\ ubCrash
        THEN [kind |-> "crash", start |-> start, goal |-> <<>>,
              ik_calls |-> 0, ub |-> TRUE]
        ELSE IF ~ikOk THEN Fail(1, missing)
        ELSE [kind |-> "ok", start |-> start,
              goal |-> [j \in 1..d |-> EnforceBounds(IKSolution(d, pose)[j])],
              ik_calls |-> 1, ub |-> missing]
      ELSE
        LET moved == SetGoalPositions(state, names, gc.joint_constraints, 1) IN
        IF moved = NULL THEN Fail(0, FALSE)
        ELSE [kind |-> "ok", start |-> start,
              goal |-> [j \in 1..d |-> EnforceBounds(Deref(moved)[j])],
              ik_calls |-> 0, ub |-> FALSE]

(***************************************************************************)
(* canServiceRequest.                                                      *)
(***************************************************************************)
\* mutant: the test for joint constraints at the goal left out
canServiceRequestAnyGoal(req, group) ==
  IF req.group_name # group THEN FALSE
  ELSE IF Len(req.goal_constraints) # 1 THEN FALSE
  ELSE TRUE

canServiceRequest(req, group) ==
  IF req.group_name # group THEN FALSE
  ELSE IF Len(req.goal_constraints) # 1 THEN FALSE
  ELSE IF Len(req.goal_constraints[1].joint_constraints) = 0 THEN FALSE
  ELSE TRUE

(***************************************************************************)
(* The optimizer (stomp_core::Stomp) and the optimization task, as the     *)
(* planner consumes them: bind, setConfig, solve, cancel, clear.           *)
(***************************************************************************)
NewStomp(config) ==
  [id |-> 1, config |-> config, solving |-> FALSE, cancelled |-> FALSE]

StompSetConfig(stomp, config) == [stomp EXCEPT !.config = config]

StompSolveBegin(stomp) == [stomp EXCEPT !.solving = TRUE]

\* the solve's result: an accepted cancel makes an in-flight solve fail
StompSolveOk(stomp, converged) == converged /\ ~stomp.cancelled

StompSolveEnd(stomp) == [stomp EXCEPT !.solving = FALSE, !.cancelled = FALSE]

\* cancel with no solve in flight is a no-op that reports ok; during a solve it
\* is either delivered (ok) or not (error)
StompCancelOk(stomp, delivered) == ~stomp.solving \/ delivered

StompCancel(stomp, delivered) ==
  IF stomp.solving /\ delivered THEN [stomp EXCEPT !.cancelled = TRUE] ELSE stomp

StompClear(stomp) == [stomp EXCEPT !.cancelled = FALSE]

\* the optimized matrix of a seeded solve: as many columns as the initial matrix
StompSolveSeeded(initial_parameters) == initial_parameters

\* the optimized matrix of a boundary solve: from start to goal over num_timesteps
StompSolveBoundary(start, goal, config) ==
  [rows |-> Len(start), cols |-> config.num_timesteps,
   at |-> [j \in 1..Len(start) |->
             [t \in 1..config.num_timesteps |-> IF t = 1 THEN start[j] ELSE goal[j]]]]

\* the error code the task leaves in the response when the bind fails
TaskBindCode(bindOk, code) == IF bindOk THEN code ELSE START_STATE_IN_COLLISION

(***************************************************************************)
(* The requests the caller may set (PlanningContext::setMotionPlanRequest) *)
(* for a group of d active joints.                                         *)
(***************************************************************************)
JC(name, p) == [joint_name |-> name, position |-> p]

\* the waypoint with one constraint per active joint, in canonical order
WaypointOk(d, p) ==
  [joint_constraints |-> [j \in 1..d |-> JC(AllJointNames[j], p + j - 1)]]

WaypointKinds == {"ok", "short", "long", "swapped", "foreign"}

Waypoint(d, p, kind) ==
  LET jcs == WaypointOk(d, p).joint_constraints IN
  [joint_constraints |->
     CASE kind = "ok" -> jcs
       [] kind = "short" -> SubSeq(jcs, 1, d - 1)
       [] kind = "long" -> Append(jcs, JC(AllJointNames[d + 1], p))
       [] kind = "swapped" -> [j \in 1..d |-> jcs[d + 1 - j]]
       [] kind = "foreign" -> [jcs EXCEPT ![1].joint_name = UNKNOWN_JOINT]]

\* a seed of n waypoints, waypoint t at base position p + t - 1, all of them
\* well-formed but waypoint k (none when k = 0), which is of the given kind
Seed(d, p, n, k, kind) ==
  [t \in 1..n |-> Waypoint(d, p + t - 1, IF t = k THEN kind ELSE "ok")]

WellFormedSeeds(d) ==
  {Seed(d, p, n, 0, "ok") : p \in 0..MaxPos, n \in 1..MaxWaypoints}

MalformedSeeds(d) ==
  UNION {{Seed(d, p, n, k, kind) : k \in 1..n, kind \in WaypointKinds \ {"ok"}} :
         p \in 0..MaxPos, n \in 1..MaxWaypoints}

JointGoal(jcs) ==
  [joint_constraints |-> jcs, position_constraints |-> <<>>,
   orientation_constraints |-> <<>>]

JointGoals(d) ==
  {JointGoal([j \in 1..k |-> JC(AllJointNames[j], v)]) :
     k \in 1..d, v \in {MaxPos, MaxPos + 1}}
  \cup {JointGoal(<<JC(AllJointNames[d], MaxPos)>>),
        JointGoal(<<JC(UNKNOWN_JOINT, MaxPos)>>)}

CartesianGoals ==
  {[joint_constraints |-> <<>>, position_constraints |-> pcs,
    orientation_constraints |-> ocs] :
     pcs \in {<<>>, <<[primitive_poses |-> <<>>]>>, <<[primitive_poses |-> <<MaxPos>>]>>},
     ocs \in {<<>>, <<"orientation">>}}

Goals(d) == JointGoals(d) \cup CartesianGoals

GoalLists(d) ==
  {<<>>} \cup {<<g>> : g \in Goals(d)}
         \cup {<<g, g>> : g \in JointGoals(d)}

StartStates(d) ==
  {[valid |-> FALSE, position |-> <<>>]}
  \cup {[valid |-> TRUE, position |-> [j \in 1..d |-> p]] : p \in {0, MaxPos + 1}}

\* the goal lists that requests with a seed are combined with
SeedGoalLists(d) ==
  {<<>>,
   <<JointGoal(<<JC(AllJointNames[1], MaxPos)>>)>>,
   <<[joint_constraints |-> <<>>,
      position_constraints |-> <<[primitive_poses |-> <<MaxPos>>]>>,
      orientation_constraints |-> <<"orientation">>]>>}

Request(group_name, start_state, goal_constraints, trajectory_constraints) ==
  [group_name |-> group_name, start_state |-> start_state,
   goal_constraints |-> goal_constraints,
   trajectory_constraints |-> trajectory_constraints]

\* requests without a seed, with a well-formed seed, and with a malformed one
Requests(d) ==
  LET invalid == [valid |-> FALSE, position |-> <<>>]
      valid == [valid |-> TRUE, position |-> [j \in 1..d |-> 0]]
  IN
  {Request(n, s, g, <<>>) :
     n \in {GROUP, "other"}, s \in StartStates(d), g \in GoalLists(d)}
  \cup {Request(GROUP, s, <<>>, t) : s \in {valid, invalid}, t \in WellFormedSeeds(d)}
  \cup {Request(GROUP, s, g, t) :
          s \in {valid, invalid}, g \in SeedGoalLists(d), t \in MalformedSeeds(d)}

\* a default-constructed request
EmptyRequest ==
  Request("", [valid |-> FALSE, position |-> <<>>], <<>>, <<>>)

\* the request with its seed removed
WithoutSeed(req) == [req EXCEPT !.trajectory_constraints = <<>>]

(***************************************************************************)
(* The detailed solve, lines 172-230: response initialisation, seed        *)
(* extraction, mode selection, boundary resolution and the bind. The       *)
(* result says where the solve stands: "setConfig" (bound, about to        *)
(* configure the optimizer), "done" (returned) or "crashed".               *)
(***************************************************************************)
FreshResponse ==
  [description_ |-> <<>>, processing_time_ |-> <<>>, trajectory_ |-> <<>>,
   error_code_ |-> 0]

InitResponse(r) ==
  [description_ |-> Resize(r.description_, 1, ""),
   processing_time_ |-> Resize(r.processing_time_, 1, 0),
   trajectory_ |-> Resize(r.trajectory_, 1, NULL),
   error_code_ |-> SUCCESS]

Call(op, config) == [op |-> op, config |-> config]

\* no collaborator outcome observed yet: each is NULL or Ptr(outcome)
NoObs ==
  [bind |-> NULL, ik |-> NULL, ub |-> NULL, solve |-> NULL, timing |-> NULL,
   path |-> NULL]

\* a default-constructed Eigen::MatrixXd
EmptyMatrix == [rows |-> 0, cols |-> 0, at |-> <<>>]

\* a default-constructed StompConfiguration
DefaultConfig ==
  [control_cost_weight |-> 0, initialization_method |-> 0, num_timesteps |-> 0,
   delta_t |-> 0, num_iterations |-> 0, num_iterations_after_valid |-> 0,
   max_rollouts |-> 0, num_rollouts |-> 0, exponentiated_cost_sensitivity |-> 0,
   num_dimensions |-> 0]

NoLocals ==
  [seed_provided |-> FALSE, config_copy |-> DefaultConfig,
   seed_traj |-> [joint_names |-> <<>>, points |-> <<>>],
   initial_parameters |-> EmptyMatrix, start |-> <<>>, goal |-> <<>>]

\* mutant: the boundary-resolution failure reported with the generic code
ResolveFailedGeneric(res) == [res EXCEPT !.error_code_ = FAILURE]

\* getStartAndGoal failed
ResolveFailed(res) == [res EXCEPT !.error_code_ = INVALID_MOTION_PLAN]

\* the optimizer's solve failed
OptimizerFailed(res) == [res EXCEPT !.error_code_ = PLANNING_FAILED]

\* isPathValid rejected the trajectory in the response
PathInvalid(res) == [res EXCEPT !.error_code_ = PLANNING_FAILED]

\* mutant: the code the task wrote is left in the response
BindFailedKeepsCode(res, bindOk) ==
  [res EXCEPT !.error_code_ = TaskBindCode(bindOk, res.error_code_)]

\* task_->setMotionPlanRequest failed: the code it wrote is overwritten by FAILURE
BindFailed(res, bindOk) ==
  [[res EXCEPT !.error_code_ = TaskBindCode(bindOk, res.error_code_)]
     EXCEPT !.error_code_ = FAILURE]

SolveBeginResult(req, d, baseline, bindOk, ikOk, ubCrash) ==
  LET names == ActiveJointModelNames(d)
      res0 == InitResponse(FreshResponse)
      config_copy == baseline
      ext == extractSeedTrajectory(req, names)
      seed_provided == ext.ok
  IN
  IF seed_provided
  THEN
    LET initial_parameters == jointTrajectorytoParameters(ext.seed)
        config_seed == [config_copy EXCEPT !.num_timesteps = Len(ext.seed.points)]
        locals == [seed_provided |-> TRUE, config_copy |-> config_seed,
                   seed_traj |-> ext.seed,
                   initial_parameters |-> initial_parameters,
                   start |-> <<>>, goal |-> <<>>]
        calls == <<Call("bind", Ptr(config_seed))>>
        obs == [NoObs EXCEPT !.bind = Ptr(bindOk)]
    IN
    IF ~bindOk
    THEN [pc |-> "done", ret |-> FALSE, res |-> BindFailed(res0, bindOk),
          locals |-> locals, calls |-> calls, obs |-> obs]
    ELSE [pc |-> "setConfig", ret |-> FALSE, res |-> res0,
          locals |-> locals, calls |-> calls, obs |-> obs]
  ELSE
    LET sg == getStartAndGoal(req, d, ikOk, ubCrash)
        locals == [seed_provided |-> FALSE, config_copy |-> config_copy,
                   seed_traj |-> ext.seed,
                   initial_parameters |-> EmptyMatrix,
                   start |-> sg.start, goal |-> sg.goal]
        ikCalls == IF sg.ik_calls = 1
                   THEN <<Call("setFromIK", Ptr([attempts |-> IK_ATTEMPTS,
                                                 timeout |-> IK_TIMEOUT]))>>
                   ELSE <<>>
        obs0 == [NoObs EXCEPT !.ik = IF sg.ik_calls = 1 THEN Ptr(ikOk) ELSE NULL,
                              !.ub = IF sg.ub THEN Ptr(ubCrash) ELSE NULL]
    IN
    IF sg.kind = "crash"
    THEN [pc |-> "crashed", ret |-> FALSE, res |-> res0,
          locals |-> locals, calls |-> ikCalls, obs |-> obs0]
    ELSE IF sg.kind = "fail"
    THEN [pc |-> "done", ret |-> FALSE,
          res |-> ResolveFailed(res0),
          locals |-> locals, calls |-> ikCalls, obs |-> obs0]
    ELSE
      LET calls == Append(ikCalls, Call("bind", Ptr(config_copy)))
          obs == [obs0 EXCEPT !.bind = Ptr(bindOk)]
      IN
      IF ~bindOk
      THEN [pc |-> "done", ret |-> FALSE, res |-> BindFailed(res0, bindOk),
            locals |-> locals, calls |-> calls, obs |-> obs]
      ELSE [pc |-> "setConfig", ret |-> FALSE, res |-> res0,
            locals |-> locals, calls |-> calls, obs |-> obs]

(***************************************************************************)
(* The detailed solve, lines 236-271: the handling of the optimizer's      *)
(* result. wd is the wall time since the solve's entry.                    *)
(***************************************************************************)
SolveFinishResult(planning_success, parameters, res, d, planning_scene_, timingOk, pathValid, wd) ==
  IF planning_success
  THEN
    LET conv == parametersToJointTrajectory(parameters, ActiveJointModelNames(d),
                                            timingOk)
    IN
    IF ~conv.ok
    THEN [ret |-> FALSE, success |-> FALSE,
          res |-> [res EXCEPT !.error_code_ = PLANNING_FAILED]]
    ELSE
      LET res1 == [res EXCEPT !.trajectory_[Len(res.trajectory_)] =
                                 Ptr(conv.trajectory)]
          invalid == planning_scene_ # NULL /\ ~pathValid
          res2 == IF invalid THEN PathInvalid(res1) ELSE res1
      IN [ret |-> TRUE, success |-> FALSE,
          res |-> [res2 EXCEPT !.processing_time_[1] = wd]]
  ELSE [ret |-> FALSE, success |-> FALSE, res |-> OptimizerFailed(res)]

(***************************************************************************)
(* solve(MotionPlanResponse&), lines 153-166: the compact response built    *)
(* from the detailed solve's result and response. wd is the wall time      *)
(* since the compact solve's entry.                                        *)
(***************************************************************************)
CompactSolveResult(success, detailed_res, wd) ==
  [ret |-> success,
   res |-> [trajectory_ |-> detailed_res.trajectory_[Len(detailed_res.trajectory_)],
            planning_time_ |-> wd,
            error_code_ |-> detailed_res.error_code_]]

(***************************************************************************)
(* terminate: forwards the cancel to the optimizer when there is one.      *)
(* delivered is the optimizer's answer to a cancel of an in-flight solve.  *)
(***************************************************************************)
\* mutant: success reported without calling cancel()
TerminateNoForward(stomp, delivered) ==
  [ret |-> TRUE, forwarded |-> FALSE, stomp |-> stomp]

\* mutant: the test of cancel()'s answer inverted
TerminateInverted(stomp, delivered) ==
  IF stomp # NULL
  THEN IF StompCancelOk(Deref(stomp), delivered)
       THEN [ret |-> FALSE, forwarded |-> TRUE,
             stomp |-> Ptr(StompCancel(Deref(stomp), delivered))]
       ELSE [ret |-> TRUE, forwarded |-> TRUE,
             stomp |-> Ptr(StompCancel(Deref(stomp), delivered))]
  ELSE [ret |-> TRUE, forwarded |-> FALSE, stomp |-> stomp]

\* mutant: cancel()'s answer ignored
TerminateIgnoresAnswer(stomp, delivered) ==
  IF stomp # NULL
  THEN [ret |-> TRUE, forwarded |-> TRUE,
        stomp |-> Ptr(StompCancel(Deref(stomp), delivered))]
  ELSE [ret |-> TRUE, forwarded |-> FALSE, stomp |-> stomp]

TerminateResult(stomp, delivered) ==
  IF stomp # NULL
  THEN IF ~StompCancelOk(Deref(stomp), delivered)
       THEN [ret |-> FALSE, forwarded |-> TRUE,
             stomp |-> Ptr(StompCancel(Deref(stomp), delivered))]
       ELSE [ret |-> TRUE, forwarded |-> TRUE,
             stomp |-> Ptr(StompCancel(Deref(stomp), delivered))]
  ELSE [ret |-> TRUE, forwarded |-> FALSE, stomp |-> stomp]

(***************************************************************************)
(* State.                                                                  *)
(***************************************************************************)
VARIABLES
  pc,               \* where the planner stands: unconstructed, setup_failed, idle,
                    \* queried, setConfig, dispatch, solving, done, crashed; no_optimizer
                    \* is a planner whose stomp_ has not been created
  dof,              \* active joints of the planning group in robot_model_
  group_,           \* the planner's group
  planning_scene_,  \* the planning scene, NULL when there is none
  task_,            \* the optimization task, NULL when there is none
  stomp_config_,    \* the baseline solver configuration
  stomp_,           \* the optimizer, NULL when there is none
  request_,         \* the request being solved
  res,              \* the detailed response of the current solve
  ret,              \* the solve's return value, read when pc = "done"
  locals,           \* seed_provided, config_copy, initial_parameters, start, goal
  elapsed,          \* wall time since the solve's entry
  calls,            \* collaborator calls of the current solve, in order
  obs,              \* collaborator outcomes of the current solve
  terms,            \* terminate calls: the idle ones before the solve, then those during it
  probe             \* the latest call of a const member function with its result, or NULL

vars == <<pc, dof, group_, planning_scene_, task_, stomp_config_, stomp_,
          request_, res, ret, locals, elapsed, calls, obs, terms, probe>>

Idle == pc = "idle"
InFlight == pc \in {"setConfig", "dispatch", "solving"}

Init ==
  /\ pc = "unconstructed"
  /\ dof = 0
  /\ group_ = ""
  /\ planning_scene_ = NULL
  /\ task_ = NULL
  /\ stomp_config_ = DefaultConfig
  /\ stomp_ = NULL
  /\ request_ = EmptyRequest
  /\ res = FreshResponse
  /\ ret = FALSE
  /\ locals = NoLocals
  /\ elapsed = 0
  /\ calls = <<>>
  /\ obs = NoObs
  /\ terms = <<>>
  /\ probe = NULL

(***************************************************************************)
(* The constructor and setup(): the task, the group check, the parse of    *)
(* the 'optimization' section, the optimizer. A throw leaves no planner.   *)
(***************************************************************************)
ConfigTrees ==
  {[has_optimization |-> h, optimization |-> [num_timesteps |-> n]] :
     h \in BOOLEAN, n \in {NULL, Ptr(MaxWaypoints + 1)}}

SetupResult(group, d, config) ==
  LET parsed == parseConfig(config.optimization, d) IN
  IF group # GROUP THEN [ok |-> FALSE, stomp_config |-> DefaultConfig]
  ELSE IF ~config.has_optimization \/ ~parsed.ok
  THEN [ok |-> FALSE, stomp_config |-> parsed.stomp_config]
  ELSE [ok |-> TRUE, stomp_config |-> parsed.stomp_config]

Setup(group, d, config) ==
  /\ pc = "unconstructed"
  /\ LET s == SetupResult(group, d, config) IN
       IF s.ok
       THEN /\ pc' = "idle"
            /\ dof' = d
            /\ group_' = group
            /\ planning_scene_' = Ptr("scene")
            /\ task_' = Ptr("task")
            /\ stomp_config_' = s.stomp_config
            /\ stomp_' = Ptr(NewStomp(s.stomp_config))
       ELSE /\ pc' = "setup_failed"
            /\ UNCHANGED <<dof, group_, planning_scene_, task_, stomp_config_, stomp_>>
  /\ UNCHANGED <<request_, res, ret, locals, elapsed, calls, obs, terms, probe>>

(***************************************************************************)
(* solve(MotionPlanDetailedResponse&), in the steps another thread's       *)
(* terminate can fall between.                                             *)
(***************************************************************************)
\* mutant: config_copy declared as a reference to stomp_config_
SolveBeginAliased(req, bindOk, ikOk, ubCrash) ==
  /\ Idle
  /\ LET b == SolveBeginResult(req, dof, stomp_config_, bindOk, ikOk, ubCrash) IN
       /\ request_' = req
       /\ pc' = b.pc
       /\ ret' = b.ret
       /\ res' = b.res
       /\ locals' = b.locals
       /\ calls' = b.calls
       /\ obs' = b.obs
       /\ stomp_config_' = b.locals.config_copy
  /\ elapsed' = 1
  /\ terms' = terms
  /\ probe' = probe
  /\ UNCHANGED <<dof, group_, planning_scene_, task_, stomp_>>

SolveBegin(req, bindOk, ikOk, ubCrash) ==
  /\ Idle
  /\ LET b == SolveBeginResult(req, dof, stomp_config_, bindOk, ikOk, ubCrash) IN
       /\ request_' = req
       /\ pc' = b.pc
       /\ ret' = b.ret
       /\ res' = b.res
       /\ locals' = b.locals
       /\ calls' = b.calls
       /\ obs' = b.obs
  /\ elapsed' = 1
  /\ terms' = terms
  /\ probe' = probe
  /\ UNCHANGED <<dof, group_, planning_scene_, task_, stomp_config_, stomp_>>

SolveSetConfig ==
  /\ pc = "setConfig"
  /\ stomp_' = Ptr(StompSetConfig(Deref(stomp_), locals.config_copy))
  /\ calls' = Append(calls, Call("setConfig", Ptr(locals.config_copy)))
  /\ pc' = "dispatch"
  /\ elapsed' = elapsed + 1
  /\ UNCHANGED <<dof, group_, planning_scene_, task_, stomp_config_, request_,
                 res, ret, locals, obs, terms, probe>>

\* mutant: the boundary solve dispatched whatever the mode
SolveDispatchBoundaryOnly ==
  /\ pc = "dispatch"
  /\ stomp_' = Ptr(StompSolveBegin(Deref(stomp_)))
  /\ calls' = Append(calls, Call("solve_boundary", Ptr(Deref(stomp_).config)))
  /\ pc' = "solving"
  /\ elapsed' = elapsed + 1
  /\ UNCHANGED <<dof, group_, planning_scene_, task_, stomp_config_, request_,
                 res, ret, locals, obs, terms, probe>>

SolveDispatch ==
  /\ pc = "dispatch"
  /\ stomp_' = Ptr(StompSolveBegin(Deref(stomp_)))
  /\ calls' = Append(calls, Call(IF locals.seed_provided THEN "solve_seeded"
                                                         ELSE "solve_boundary",
                                 Ptr(Deref(stomp_).config)))
  /\ pc' = "solving"
  /\ elapsed' = elapsed + 1
  /\ UNCHANGED <<dof, group_, planning_scene_, task_, stomp_config_, request_,
                 res, ret, locals, obs, terms, probe>>

SolveFinish(converged, timingOk, pathValid) ==
  /\ pc = "solving"
  /\ LET planning_success == StompSolveOk(Deref(stomp_), converged)
         parameters == IF locals.seed_provided
                       THEN StompSolveSeeded(locals.initial_parameters)
                       ELSE StompSolveBoundary(locals.start, locals.goal,
                                               Deref(stomp_).config)
         f == SolveFinishResult(planning_success, parameters, res, dof,
                                planning_scene_, timingOk, pathValid, elapsed + 1)
     IN
       /\ ret' = f.ret
       /\ res' = f.res
       /\ obs' = [obs EXCEPT !.solve = Ptr(planning_success),
                             !.timing = IF planning_success THEN Ptr(timingOk) ELSE NULL,
                             !.path = IF planning_success /\ planning_scene_ # NULL
                                      THEN Ptr(pathValid) ELSE NULL]
       /\ calls' = calls \o (IF planning_success
                             THEN <<Call("computeTimeStamps", NULL)>> ELSE <<>>)
                         \o (IF planning_success /\ planning_scene_ # NULL
                             THEN <<Call("isPathValid", NULL)>> ELSE <<>>)
  /\ stomp_' = Ptr(StompSolveEnd(Deref(stomp_)))
  /\ pc' = "done"
  /\ elapsed' = elapsed + 1
  /\ UNCHANGED <<dof, group_, planning_scene_, task_, stomp_config_, request_,
                 locals, terms, probe>>

(***************************************************************************)
(* terminate() and clear().                                                *)
(***************************************************************************)
Terminate(delivered) ==
  /\ Idle \/ InFlight \/ pc = "no_optimizer"
  /\ Len(terms) < MaxTerminates
  /\ LET t == TerminateResult(stomp_, delivered) IN
       /\ stomp_' = t.stomp
       /\ terms' = Append(terms,
            [at |-> pc, ret |-> t.ret, forwarded |-> t.forwarded,
             exists |-> stomp_ # NULL,
             accepted |-> t.forwarded /\ stomp_ # NULL
                          /\ StompCancelOk(Deref(stomp_), delivered)])
  /\ UNCHANGED <<pc, dof, group_, planning_scene_, task_, stomp_config_, request_,
                 res, ret, locals, elapsed, calls, obs, probe>>

\* the caller has read the result of the solve; the planner is idle again
SolveReturn ==
  /\ pc = "done"
  /\ pc' = "idle"
  /\ request_' = EmptyRequest
  /\ res' = FreshResponse
  /\ ret' = FALSE
  /\ locals' = NoLocals
  /\ elapsed' = 0
  /\ calls' = <<>>
  /\ obs' = NoObs
  /\ terms' = <<>>
  /\ UNCHANGED <<dof, group_, planning_scene_, task_, stomp_config_, stomp_, probe>>

\* mutant: the handle reset (stomp_.reset()) instead of the optimizer cleared
ClearDropsHandle ==
  /\ Idle
  /\ stomp_' = NULL
  /\ UNCHANGED <<pc, dof, group_, planning_scene_, task_, stomp_config_, request_,
                 res, ret, locals, elapsed, calls, obs, terms, probe>>

Clear ==
  /\ Idle
  /\ stomp_' = Ptr(StompClear(Deref(stomp_)))
  /\ UNCHANGED <<pc, dof, group_, planning_scene_, task_, stomp_config_, request_,
                 res, ret, locals, elapsed, calls, obs, terms, probe>>

(***************************************************************************)
(* canServiceRequest(req): a const member function, called by the planning *)
(* pipeline on the request it is about to hand to the planner.             *)
(***************************************************************************)
CanServiceRequest(req) ==
  /\ Idle
  /\ pc' = "queried"
  /\ probe' = Ptr([op |-> "canServiceRequest", req |-> req,
                   result |-> canServiceRequest(req, group_)])
  /\ UNCHANGED <<dof, group_, planning_scene_, task_, stomp_config_, stomp_,
                 request_, res, ret, locals, elapsed, calls, obs, terms>>

\* the caller has read the result of the query; the planner is idle again
QueryReturn ==
  /\ pc = "queried"
  /\ pc' = "idle"
  /\ probe' = NULL
  /\ UNCHANGED <<dof, group_, planning_scene_, task_, stomp_config_, stomp_,
                 request_, res, ret, locals, elapsed, calls, obs, terms>>

Next ==
  \/ \E group \in {GROUP, "bogus"}, d \in 0..MaxD, config \in ConfigTrees :
       Setup(group, d, config)
  \/ \E req \in (IF Idle THEN Requests(dof) ELSE {}), bindOk \in BOOLEAN, ikOk \in BOOLEAN, ubCrash \in BOOLEAN :
       SolveBegin(req, bindOk, ikOk, ubCrash)
  \/ SolveSetConfig
  \/ SolveDispatch
  \/ \E converged \in BOOLEAN, timingOk \in BOOLEAN, pathValid \in BOOLEAN :
       SolveFinish(converged, timingOk, pathValid)
  \/ SolveReturn
  \/ \E delivered \in BOOLEAN : Terminate(delivered)
  \/ Clear
  \/ \E req \in (IF Idle THEN Requests(dof) ELSE {}) : CanServiceRequest(req)
  \/ QueryReturn

Spec == Init /\ [][Next]_vars

(***************************************************************************)
(* The cancellation gateway taken alone: terminate() also on a planner     *)
(* whose stomp_ is still null (setup() creates the optimizer last).        *)
(***************************************************************************)
InitGateway ==
  \/ Init
  \/ /\ pc = "no_optimizer"
     /\ dof = 0
     /\ group_ = GROUP
     /\ planning_scene_ = Ptr("scene")
     /\ task_ = Ptr("task")
     /\ stomp_config_ = DefaultConfig
     /\ stomp_ = NULL
     /\ request_ = EmptyRequest
     /\ res = FreshResponse
     /\ ret = FALSE
     /\ locals = NoLocals
     /\ elapsed = 0
     /\ calls = <<>>
     /\ obs = NoObs
     /\ terms = <<>>
     /\ probe = NULL

SpecGateway == InitGateway /\ [][Next]_vars

(***************************************************************************)
(* The trajectory representation bridge taken alone: a joint trajectory    *)
(* over the group's joints converted to a parameter matrix by              *)
(* jointTrajectorytoParameters and back by parametersToJointTrajectory.    *)
(***************************************************************************)
\* joint trajectories of up to MaxWaypoints points over the d active joints
BridgeTrajectories(d) ==
  UNION {{[joint_names |-> ActiveJointModelNames(d),
           points |-> [t \in 1..n |-> [positions |-> ps[t]]]] :
            ps \in [1..n -> [1..d -> 0..MaxPos]]} :
         n \in 0..MaxWaypoints}

InitBridge ==
  /\ pc = "bridge"
  /\ dof \in 1..MaxD
  /\ group_ = GROUP
  /\ planning_scene_ = Ptr("scene")
  /\ task_ = Ptr("task")
  /\ stomp_config_ = parseConfig([num_timesteps |-> NULL], dof).stomp_config
  /\ stomp_ = Ptr(NewStomp(stomp_config_))
  /\ request_ = EmptyRequest
  /\ res = FreshResponse
  /\ ret = FALSE
  /\ locals = NoLocals
  /\ elapsed = 0
  /\ calls = <<>>
  /\ obs = NoObs
  /\ terms = <<>>
  /\ probe \in {Ptr([op |-> "trajectory", traj |-> traj]) : traj \in BridgeTrajectories(dof)}

BridgeToParameters ==
  /\ pc = "bridge"
  /\ Deref(probe).op = "trajectory"
  /\ probe' = Ptr([op |-> "parameters", traj |-> Deref(probe).traj,
                   parameters |-> jointTrajectorytoParameters(Deref(probe).traj)])
  /\ UNCHANGED <<pc, dof, group_, planning_scene_, task_, stomp_config_, stomp_,
                 request_, res, ret, locals, elapsed, calls, obs, terms>>

BridgeToTrajectory(timingOk) ==
  /\ pc = "bridge"
  /\ Deref(probe).op = "parameters"
  /\ probe' = Ptr([op |-> "round_trip", traj |-> Deref(probe).traj,
                   parameters |-> Deref(probe).parameters,
                   back |-> parametersToJointTrajectory(Deref(probe).parameters,
                                                        ActiveJointModelNames(dof),
                                                        timingOk)])
  /\ UNCHANGED <<pc, dof, group_, planning_scene_, task_, stomp_config_, stomp_,
                 request_, res, ret, locals, elapsed, calls, obs, terms>>

NextBridge ==
  \/ BridgeToParameters
  \/ \E timingOk \in BOOLEAN : BridgeToTrajectory(timingOk)

SpecBridge == InitBridge /\ [][NextBridge]_vars

(***************************************************************************)
(* The outcome of a detailed solve that no terminate falls into, for a     *)
(* request and the collaborator outcomes o.                                *)
(***************************************************************************)
Yes(o) == o = Ptr(TRUE)

SolveOutcome(req, d, baseline, scene, o) ==
  LET b == SolveBeginResult(req, d, baseline, Yes(o.bind), Yes(o.ik), Yes(o.ub)) IN
  IF b.pc = "crashed" THEN [returned |-> FALSE, ret |-> FALSE, error_code_ |-> 0]
  ELSE IF b.pc = "done"
  THEN [returned |-> TRUE, ret |-> b.ret, error_code_ |-> b.res.error_code_]
  ELSE
    LET config == b.locals.config_copy
        parameters == IF b.locals.seed_provided
                      THEN StompSolveSeeded(b.locals.initial_parameters)
                      ELSE StompSolveBoundary(b.locals.start, b.locals.goal, config)
        f == SolveFinishResult(Yes(o.solve), parameters, b.res, d, scene,
                               Yes(o.timing), Yes(o.path), 0)
    IN [returned |-> TRUE, ret |-> f.ret, error_code_ |-> f.res.error_code_]

(***************************************************************************)
(* Claims.                                                                 *)
(***************************************************************************)
Done == pc = "done"
Entered == pc \in {"setConfig", "dispatch", "solving", "done", "crashed"}
CallsOf(ops) == SelectSeq(calls, LAMBDA c : c.op \in ops)
SolveOps == {"solve_seeded", "solve_boundary"}

\* C1: when the optimizer succeeds but isPathValid rejects the trajectory, the
\* solve does not report success (it returns false) and the error code is
\* PLANNING_FAILED.
C1_CollisionDemotedToFailure ==
  (Done /\ obs.solve = Ptr(TRUE) /\ obs.path = Ptr(FALSE))
    => (ret = FALSE /\ res.error_code_ = PLANNING_FAILED)

\* C2: whenever the solve ends with a failure (it returns false or leaves a
\* non-SUCCESS code), the response has exactly one trajectory slot, the slot
\* holds no trajectory, and the error code is not SUCCESS.
C2_FailureReturnsNoTrajectory ==
  (Done /\ (ret = FALSE \/ res.error_code_ # SUCCESS))
    => /\ Len(res.trajectory_) = 1
       /\ res.trajectory_[1] = NULL
       /\ res.error_code_ # SUCCESS

\* the seed has a waypoint whose joint-constraint count differs from d
SeedCountMismatch(req, d) ==
  \E i \in 1..Len(req.trajectory_constraints) :
    Len(req.trajectory_constraints[i].joint_constraints) # d

\* the seed has a waypoint whose joint names are not the canonical list
SeedOrderMismatch(req, d) ==
  \E i \in 1..Len(req.trajectory_constraints) :
    LET jcs == req.trajectory_constraints[i].joint_constraints IN
    [j \in 1..Len(jcs) |-> jcs[j].joint_name] # ActiveJointModelNames(d)

SeedRejected(req, d) ==
  /\ req.trajectory_constraints # <<>>
  /\ SeedCountMismatch(req, d) \/ SeedOrderMismatch(req, d)

\* C3: a non-empty seed with a waypoint of the wrong constraint count or the
\* wrong joint-name order is reported as 'no seed', the solve runs in boundary
\* mode (no seeded solve call), and its return value and error code are those
\* of the same request without the seed.
C3_SeedRejectionNeverFails ==
  (Entered /\ SeedRejected(request_, dof))
    => /\ ~locals.seed_provided
       /\ CallsOf({"solve_seeded"}) = <<>>
       /\ Done =>
            LET o == SolveOutcome(WithoutSeed(request_), dof, stomp_config_,
                                  planning_scene_, obs)
            IN o.returned /\ ret = o.ret /\ res.error_code_ = o.error_code_

\* C3 witness: a seed rejected for its joint-name order alone, solved in
\* boundary mode to success.
C3_Witness ==
  /\ Done
  /\ SeedOrderMismatch(request_, dof)
  /\ ~SeedCountMismatch(request_, dof)
  /\ CallsOf({"solve_boundary"}) # <<>>
  /\ ret = TRUE
  /\ res.error_code_ = SUCCESS

SeedProduced == extractSeedTrajectory(request_, ActiveJointModelNames(dof)).ok

\* C4 as claimed: at most one optimizer solve call per invocation; the seeded
\* solve is called if and only if the seed extractor produced a seed, the
\* boundary solve only when it did not; an optimizer failure ends the
\* invocation with return value false and PLANNING_FAILED.
C4_Original ==
  /\ Len(CallsOf(SolveOps)) <= 1
  /\ Done =>
       /\ (CallsOf({"solve_seeded"}) # <<>>) <=> SeedProduced
       /\ (CallsOf({"solve_boundary"}) # <<>>) => ~SeedProduced
       /\ obs.solve = Ptr(FALSE) => (ret = FALSE /\ res.error_code_ = PLANNING_FAILED)

\* C4 amended: at most one optimizer solve call per invocation; the seeded
\* solve is called if and only if the seed extractor produced a seed and the
\* bind succeeded, the boundary solve only when no seed was produced; an
\* optimizer failure ends the invocation with return value false and
\* PLANNING_FAILED.
C4_OneSolveCallByMode ==
  /\ Len(CallsOf(SolveOps)) <= 1
  /\ Done =>
       /\ (CallsOf({"solve_seeded"}) # <<>>) <=> (SeedProduced /\ obs.bind = Ptr(TRUE))
       /\ (CallsOf({"solve_boundary"}) # <<>>) => ~SeedProduced
       /\ obs.solve = Ptr(FALSE) => (ret = FALSE /\ res.error_code_ = PLANNING_FAILED)

\* C4 witness: a seeded solve whose single optimizer call failed.
C4_Witness ==
  /\ Done
  /\ SeedProduced
  /\ Len(CallsOf({"solve_seeded"})) = 1
  /\ obs.solve = Ptr(FALSE)
  /\ ret = FALSE

\* C5: a failed bind ends the solve with return value false and FAILURE, with
\* no setConfig and no optimizer solve call; an optimizer solve call is
\* immediately preceded by setConfig and that by a successful bind, all with
\* the same working configuration.
C5_BindGatesSolve ==
  /\ (Done /\ obs.bind = Ptr(FALSE))
       => /\ ret = FALSE
          /\ res.error_code_ = FAILURE
          /\ CallsOf({"setConfig"} \cup SolveOps) = <<>>
  /\ \A i \in 1..Len(calls) :
       calls[i].op \in SolveOps
         => /\ obs.bind = Ptr(TRUE)
            /\ i >= 3
            /\ calls[i - 2] = Call("bind", Ptr(locals.config_copy))
            /\ calls[i - 1] = Call("setConfig", Ptr(locals.config_copy))
            /\ calls[i].config = Ptr(locals.config_copy)

\* C5 witness: a seeded solve whose bind failed.
C5_Witness ==
  /\ Done
  /\ locals.seed_provided
  /\ obs.bind = Ptr(FALSE)
  /\ res.error_code_ = FAILURE

CartesianGoal(req) ==
  /\ req.goal_constraints # <<>>
  /\ Head(req.goal_constraints).joint_constraints = <<>>

\* the start state cannot be parsed, the goal list is empty, or IK failed for a Cartesian goal
BoundaryResolutionFails(req, o) ==
  \/ ~req.start_state.valid
  \/ req.goal_constraints = <<>>
  \/ CartesianGoal(req) /\ o.ik = Ptr(FALSE)

\* C6: in boundary mode a failed boundary resolution ends the solve at once
\* with return value false and INVALID_MOTION_PLAN, with no bind, setConfig or
\* optimizer solve call and no further fallback; IK is invoked at most once
\* per solve.
C6_BoundaryFailureIsFinal ==
  /\ Len(CallsOf({"setFromIK"})) <= 1
  /\ (Entered /\ ~SeedProduced /\ BoundaryResolutionFails(request_, obs))
       => /\ Done
          /\ ret = FALSE
          /\ res.error_code_ = INVALID_MOTION_PLAN
          /\ calls = CallsOf({"setFromIK"})

\* C6 witness: a well-formed Cartesian goal whose inverse kinematics failed.
C6_Witness ==
  /\ Done
  /\ ~SeedProduced
  /\ obs.ik = Ptr(FALSE)
  /\ obs.ub = NULL
  /\ Len(CallsOf({"setFromIK"})) = 1
  /\ res.error_code_ = INVALID_MOTION_PLAN

\* C7 as claimed: a terminate that falls into the optimizer's solve call is
\* forwarded to the optimizer and the solve returns false with a non-SUCCESS
\* code.
C7_Original ==
  /\ \A i \in 1..Len(terms) : terms[i].at = "solving" => terms[i].forwarded
  /\ (Done /\ \E i \in 1..Len(terms) : terms[i].at = "solving")
       => (ret = FALSE /\ res.error_code_ # SUCCESS)

\* C7 amended: a terminate that falls into the optimizer's solve call is
\* forwarded to the optimizer; when the optimizer accepts the cancel (terminate
\* returns true) the solve returns false with PLANNING_FAILED.
C7_AcceptedCancelFailsSolve ==
  /\ \A i \in 1..Len(terms) : terms[i].at = "solving" => terms[i].forwarded
  /\ (Done /\ \E i \in 1..Len(terms) : terms[i].at = "solving" /\ terms[i].ret)
       => (ret = FALSE /\ res.error_code_ = PLANNING_FAILED)

\* C7 witness: a solve that ended after a terminate, accepted by the optimizer,
\* fell into its solve call.
C7_Witness ==
  /\ Done
  /\ \E i \in 1..Len(terms) :
       terms[i].at = "solving" /\ terms[i].ret /\ terms[i].accepted
  /\ ret = FALSE

IdleTerminateStep == pc = "idle" /\ Len(terms') = Len(terms) + 1

OnlyIdleTerminates ==
  /\ terms # <<>>
  /\ \A i \in 1..Len(terms) : terms[i].at = "idle"

OutcomeAsWithoutTerminate ==
  LET o == SolveOutcome(request_, dof, stomp_config_, planning_scene_, obs)
  IN o.returned /\ ret = o.ret /\ res.error_code_ = o.error_code_

\* C8: a terminate with no solve active returns success and changes nothing of
\* the planner or the optimizer, and a solve that follows idle terminates ends
\* as the same solve does with no terminate.
C8_IdleTerminateIsNoOp ==
  /\ [][IdleTerminateStep
          => /\ terms'[Len(terms')].ret = TRUE
             /\ UNCHANGED <<pc, dof, group_, planning_scene_, task_, stomp_config_,
                            stomp_, request_, res, ret, locals, elapsed, calls, obs,
                            probe>>]_vars
  /\ []((Done /\ OnlyIdleTerminates) => OutcomeAsWithoutTerminate)

\* C8 witness: a solve that succeeded after two idle terminates.
C8_Witness ==
  /\ Done
  /\ Len(terms) >= 2
  /\ OnlyIdleTerminates
  /\ ret = TRUE
  /\ res.error_code_ = SUCCESS

C10_ProcessingTimeRecorded ==
  Done => res.processing_time_ = <<elapsed>>

\* the matrix the optimizer's solve call of the current solve produced
OptimizedParameters ==
  IF locals.seed_provided
  THEN StompSolveSeeded(locals.initial_parameters)
  ELSE StompSolveBoundary(locals.start, locals.goal, Deref(stomp_).config)

\* C11: when computeTimeStamps fails the conversion still succeeds: the response
\* holds the untimed trajectory (canonical joint names, one point per matrix
\* column with the column's positions, zero velocities, accelerations and
\* time), the path is validated, and the code is a failure code only when the
\* path check rejects the trajectory.
C11_TimingFailureTolerated ==
  (Done /\ obs.timing = Ptr(FALSE))
    => /\ res.trajectory_[1] # NULL
       /\ LET m == OptimizedParameters
              traj == Deref(res.trajectory_[1])
          IN /\ traj.joint_names = ActiveJointModelNames(dof)
             /\ Len(traj.points) = m.cols
             /\ \A t \in 1..Len(traj.points) :
                  /\ Len(traj.points[t].positions) = m.rows
                  /\ \A j \in 1..m.rows :
                       /\ traj.points[t].positions[j] = m.at[j][t]
                       /\ traj.points[t].velocities[j] = 0
                       /\ traj.points[t].accelerations[j] = 0
                  /\ Len(traj.points[t].velocities) = m.rows
                  /\ Len(traj.points[t].accelerations) = m.rows
                  /\ traj.points[t].time_from_start = 0
       /\ CallsOf({"isPathValid"}) # <<>>
       /\ res.error_code_ # SUCCESS => obs.path = Ptr(FALSE)

\* C11 witness: a solve that ended in SUCCESS with an untimed trajectory of at
\* least two points although the time parameterization failed.
C11_Witness ==
  /\ Done
  /\ obs.timing = Ptr(FALSE)
  /\ obs.path = Ptr(TRUE)
  /\ ret = TRUE
  /\ res.error_code_ = SUCCESS
  /\ res.trajectory_[1] # NULL
  /\ Len(Deref(res.trajectory_[1]).points) >= 2

\* C12: no step after setup changes the baseline configuration stomp_config_,
\* and every configuration an unseeded solve applies to the optimizer
\* (setConfig, then the boundary solve call) has the baseline's timestep count,
\* whatever the preceding solve left in the optimizer.
C12_BaselineNeverMutated ==
  /\ [][pc # "unconstructed" => stomp_config_' = stomp_config_]_vars
  /\ [](\A i \in 1..Len(calls) :
          (~locals.seed_provided /\ calls[i].op \in {"bind", "setConfig", "solve_boundary"})
            => Deref(calls[i].config).num_timesteps = stomp_config_.num_timesteps)

\* C12 witness: an unseeded solve that bound its working copy with the
\* baseline's timestep count while the optimizer still holds the different
\* count of the preceding seeded solve.
C12_Witness ==
  /\ pc = "setConfig"
  /\ ~locals.seed_provided
  /\ Deref(stomp_).config.num_timesteps # stomp_config_.num_timesteps
  /\ Deref(stomp_).config.num_timesteps <= MaxWaypoints
  /\ locals.config_copy.num_timesteps = stomp_config_.num_timesteps

\* C13: in a seeded solve with a validated seed of N waypoints the
\* configuration of the bind, of setConfig and of the seeded solve call has
\* timestep count N, and the initial matrix has dof rows and N columns, entry
\* (j, t) being the position of the j-th joint constraint of waypoint t.
C13_SeededSolveInputs ==
  (Entered /\ SeedProduced)
    => LET N == Len(request_.trajectory_constraints)
           m == locals.initial_parameters
       IN /\ locals.seed_provided
          /\ calls # <<>>
          /\ calls[1].op = "bind"
          /\ \A i \in 1..Len(calls) :
               calls[i].op \in {"bind", "setConfig", "solve_seeded"}
                 => Deref(calls[i].config).num_timesteps = N
          /\ pc \in {"dispatch", "solving"} => Deref(stomp_).config.num_timesteps = N
          /\ m.rows = dof
          /\ m.cols = N
          /\ \A j \in 1..dof : \A t \in 1..N :
               m.at[j][t] = request_.trajectory_constraints[t].joint_constraints[j].position

\* C13 witness: the optimizer solving from a seed whose waypoint count differs
\* from the number of joints.
C13_Witness ==
  /\ pc = "solving"
  /\ SeedProduced
  /\ CallsOf({"solve_seeded"}) # <<>>
  /\ Len(request_.trajectory_constraints) # dof
  /\ locals.initial_parameters.cols = Len(request_.trajectory_constraints)

\* C14: converting a joint trajectory of N points over the canonical joints to
\* a parameter matrix and that matrix back gives a successful conversion with
\* the canonical joint names, N points and the original position values, point
\* by point and joint by joint.
C14_RoundTrip ==
  (pc = "bridge" /\ Deref(probe).op = "round_trip")
    => LET orig == Deref(probe).traj
           back == Deref(probe).back
       IN /\ back.ok
          /\ back.trajectory.joint_names = ActiveJointModelNames(dof)
          /\ Len(back.trajectory.points) = Len(orig.points)
          /\ \A t \in 1..Len(orig.points) :
               /\ Len(back.trajectory.points[t].positions) = dof
               /\ \A j \in 1..dof :
                    back.trajectory.points[t].positions[j] = orig.points[t].positions[j]

\* C14 witness: a round trip of a trajectory of two different points over two
\* joints with different positions.
C14_Witness ==
  /\ pc = "bridge"
  /\ Deref(probe).op = "round_trip"
  /\ dof >= 2
  /\ Len(Deref(probe).traj.points) >= 2
  /\ Deref(probe).traj.points[1].positions # Deref(probe).traj.points[2].positions
  /\ Deref(probe).traj.points[1].positions[1] # Deref(probe).traj.points[1].positions[2]
  /\ Len(Deref(probe).back.trajectory.points) = 2

\* the first goal constraint set holds joint constraints, all on joints of the group
JointSpaceGoal(req, d) ==
  /\ req.goal_constraints # <<>>
  /\ Head(req.goal_constraints).joint_constraints # <<>>
  /\ \A k \in 1..Len(Head(req.goal_constraints).joint_constraints) :
       \E j \in 1..d :
         Head(req.goal_constraints).joint_constraints[k].joint_name = AllJointNames[j]

\* a value moved to the nearer joint bound when it lies outside the bounds
Clamped(v) ==
  IF v < JointBounds.lower THEN JointBounds.lower
  ELSE IF v > JointBounds.upper THEN JointBounds.upper
  ELSE v

\* C15: for a joint-space goal the start and goal vectors have length dof; in
\* the goal every joint named by a joint constraint has the constrained value
\* and every other joint the start state's value, each brought inside the
\* joint bounds; every entry of both vectors lies within the bounds.
C15_JointGoalResolution ==
  (Entered /\ ~SeedProduced /\ request_.start_state.valid
     /\ JointSpaceGoal(request_, dof))
    => LET jcs == Head(request_.goal_constraints).joint_constraints
           Named(j) == \E k \in 1..Len(jcs) : jcs[k].joint_name = AllJointNames[j]
           Target(j) ==
             IF Named(j)
             THEN jcs[CHOOSE k \in 1..Len(jcs) : jcs[k].joint_name = AllJointNames[j]].position
             ELSE request_.start_state.position[j]
       IN /\ Len(locals.start) = dof
          /\ Len(locals.goal) = dof
          /\ \A j \in 1..dof :
               /\ locals.start[j] = Clamped(request_.start_state.position[j])
               /\ locals.goal[j] = Clamped(Target(j))
               /\ JointBounds.lower <= locals.start[j]
               /\ locals.start[j] <= JointBounds.upper
               /\ JointBounds.lower <= locals.goal[j]
               /\ locals.goal[j] <= JointBounds.upper

\* C15 witness: a goal naming the last joint only, resolved to a goal vector
\* whose first joint keeps the start value and whose last joint has the
\* constrained one.
C15_Witness ==
  /\ pc = "solving"
  /\ ~SeedProduced
  /\ dof >= 2
  /\ JointSpaceGoal(request_, dof)
  /\ Len(Head(request_.goal_constraints).joint_constraints) = 1
  /\ Head(request_.goal_constraints).joint_constraints[1].joint_name = AllJointNames[dof]
  /\ locals.goal[1] = request_.start_state.position[1]
  /\ locals.goal[dof] = Head(request_.goal_constraints).joint_constraints[1].position
  /\ locals.goal[1] # locals.goal[dof]

\* the seed is non-empty and every waypoint has dof joint constraints named in canonical order
SeedValid(req, d) ==
  /\ req.trajectory_constraints # <<>>
  /\ ~SeedCountMismatch(req, d)
  /\ ~SeedOrderMismatch(req, d)

\* C16: on a seed that passes validation extractSeedTrajectory reports a seed
\* whose joint names are the canonical active-joint list and which has one
\* point per waypoint, in waypoint order, with the constraint positions
\* verbatim in joint order.
C16_SeedExtractedVerbatim ==
  (Entered /\ SeedValid(request_, dof))
    => LET tc == request_.trajectory_constraints
           seed == locals.seed_traj
       IN /\ locals.seed_provided
          /\ seed.joint_names = ActiveJointModelNames(dof)
          /\ Len(seed.points) = Len(tc)
          /\ \A t \in 1..Len(tc) :
               /\ Len(seed.points[t].positions) = Len(tc[t].joint_constraints)
               /\ \A j \in 1..Len(tc[t].joint_constraints) :
                    seed.points[t].positions[j] = tc[t].joint_constraints[j].position

\* C16 witness: a seed of two waypoints over two joints extracted by a solve.
C16_Witness ==
  /\ Entered
  /\ SeedValid(request_, dof)
  /\ dof >= 2
  /\ Len(request_.trajectory_constraints) >= 2
  /\ Len(locals.seed_traj.points) = Len(request_.trajectory_constraints)
  /\ locals.seed_traj.points[1].positions[1] # locals.seed_traj.points[1].positions[2]
  /\ locals.seed_traj.points[1].positions # locals.seed_traj.points[2].positions

Queried == pc = "queried"

\* C17: canServiceRequest returns true exactly when the request's group is the
\* planner's group, there is exactly one goal constraint set and that set has
\* at least one joint constraint; a Cartesian-only goal that getStartAndGoal
\* resolves by IK is reported as not serviceable; the call changes no planner
\* state.
C17_CanServiceRequest ==
  /\ [](Queried =>
          LET req == Deref(probe).req IN
          /\ Deref(probe).result
               = (/\ req.group_name = group_
                  /\ Len(req.goal_constraints) = 1
                  /\ Len(req.goal_constraints[1].joint_constraints) >= 1)
          /\ (CartesianGoal(req) /\ getStartAndGoal(req, dof, TRUE, FALSE).kind = "ok")
               => ~Deref(probe).result)
  /\ [][(pc = "idle" /\ pc' = "queried")
          => UNCHANGED <<dof, group_, planning_scene_, task_, stomp_config_, stomp_,
                         request_, res, ret, locals, elapsed, calls, obs, terms>>]_vars

\* C17 witness: a request for the planner's group with a single Cartesian goal
\* that IK resolves, reported as not serviceable.
C17_Witness ==
  /\ Queried
  /\ Deref(probe).req.group_name = group_
  /\ Len(Deref(probe).req.goal_constraints) = 1
  /\ CartesianGoal(Deref(probe).req)
  /\ getStartAndGoal(Deref(probe).req, dof, TRUE, FALSE).kind = "ok"
  /\ ~Deref(probe).result

\* C18: the detailed solve returns true exactly when the response's error code
\* is SUCCESS, and the compact solve returns the same boolean and the same
\* error code as the detailed solve it wraps.
C18_ResultAgreesWithCode ==
  Done
    => /\ (ret = TRUE) <=> (res.error_code_ = SUCCESS)
       /\ LET compact == CompactSolveResult(ret, res, elapsed) IN
            /\ compact.ret = ret
            /\ compact.res.error_code_ = res.error_code_

\* C19: for a goal without joint constraints that lacks a position constraint,
\* an orientation constraint or the position constraint's primitive pose,
\* getStartAndGoal fails (the solve returns false) and reads no missing element:
\* no undefined read happens and IK is not called.
C19_MissingConstraintsRejected ==
  (Entered /\ ~SeedProduced /\ request_.start_state.valid
     /\ CartesianGoal(request_)
     /\ CartesianGoalMissing(Head(request_.goal_constraints)))
    => /\ Done
       /\ ret = FALSE
       /\ obs.ub = NULL
       /\ CallsOf({"setFromIK"}) = <<>>

\* the planner was constructed: solve, terminate and clear can be called on it
Constructed ==
  pc \in {"idle", "queried", "setConfig", "dispatch", "solving", "done", "crashed"}

\* C20: setup succeeds exactly for the known group with an 'optimization'
\* section and at least one active joint, and otherwise fails leaving no
\* planner; a constructed planner has an optimizer handle and a baseline
\* configuration whose num_dimensions is the group's active-joint count, at
\* least 1; no step drops or replaces the handle.
C20_OptimizerHandleStable ==
  /\ [](/\ \A group \in {GROUP, "bogus"}, d \in 0..MaxD, config \in ConfigTrees :
            SetupResult(group, d, config).ok
              <=> (group = GROUP /\ config.has_optimization /\ d >= 1)
        /\ Constructed
             => /\ stomp_ # NULL
                /\ stomp_config_.num_dimensions = dof
                /\ dof >= 1)
  /\ [][pc = "unconstructed" /\ pc' # pc
          => \/ pc' = "setup_failed" /\ stomp_' = NULL
             \/ /\ pc' = "idle"
                /\ group_' = GROUP
                /\ stomp_' # NULL
                /\ Deref(stomp_').config = stomp_config_']_vars
  /\ [][stomp_ # NULL
          => stomp_' # NULL /\ Deref(stomp_').id = Deref(stomp_).id]_vars

\* C20 witness: a finished seeded solve whose optimizer, re-configured by the
\* solve and cancelled by a terminate, is still the handle setup created.
C20_Witness ==
  /\ pc = "done"
  /\ locals.seed_provided
  /\ \E i \in 1..Len(terms) : terms[i].at = "solving" /\ terms[i].accepted
  /\ stomp_ # NULL
  /\ Deref(stomp_).id = 1
  /\ Deref(stomp_).config.num_timesteps # stomp_config_.num_timesteps
  /\ stomp_config_.num_dimensions = dof

====
